---- MODULE Spec2Model ----
(***************************************************************************)
(* A model of the DEP map-rendering backend, depbackend.auto.mapper:       *)
(* application -> get_ts_ts2 -> make_overviewmap | make_map, and the cache *)
(* key function get_mckey.                                                 *)
(*                                                                         *)
(* Conventions.  Python's None is the empty tuple and a present value x is *)
(* <<x>>.  A Python str that is sliced, measured or formatted into another *)
(* string is a tuple of one-character strings.  A date is a record         *)
(* [y, m, d].  A real number is a fraction [n, d] with d > 0; bin edges    *)
(* are integers counting hundredths.                                       *)
(***************************************************************************)
EXTENDS Integers, Sequences, FiniteSets, TLC

VARIABLES
    environ,          \* the request being served, as the Schema hands it over
    arrivals,         \* the requests still to come
    db,               \* the store
    cache,            \* memcache: entries [key, body, env], env the request
                      \* whose rendering is stored
    pc,               \* where the request is
    key,              \* its cache key
    ts, ts2,          \* its window
    huc12_scenario,   \* the geometry scenario of its scenario
    lastts,           \* the last date with data
    gate,             \* "pending", "passed" or "failed"
    queries,          \* the queries issued so far, in order
    df,               \* the fetched frame: rows [huc_12, data]
    ramp,             \* the index of the base ramp
    p95,              \* the 95th percentile of the data
    bins,             \* the bin edges, in hundredths
    prettyCalls,      \* how often pretty_bins was called
    image,            \* what the response shows
    outcome           \* "pending", "image", "cached" or the exception raised

vars == <<environ, arrivals, db, cache, pc, key, ts, ts2, huc12_scenario, lastts,
          gate, queries, df, ramp, p95, bins, prettyCalls, image, outcome>>

\* the variables of one request's rendering
work == <<ts, ts2, huc12_scenario, lastts, gate, queries, df, ramp, p95, bins,
          prettyCalls, image>>

(***************************************************************************)
(* Bounds of the model.                                                    *)
(***************************************************************************)
\* years of the request's date fields run from the year before the floor, YearSpan years on
YearSpan == 2
\* scenario ids of a request run 0 .. MaxScenario
MaxScenario == 2
\* the stored metric rows are the unit pattern times 0 .. MaxLevel
MaxLevel == 3

None == <<>>
Some(x) == <<x>>
Get(o) == o[1]

(***************************************************************************)
(* Text.                                                                   *)
(***************************************************************************)
DigitChar == <<"0", "1", "2", "3", "4", "5", "6", "7", "8", "9">>

RECURSIVE NatStr(_)
\* str(n) for n >= 0
NatStr(n) ==
    IF n < 10 THEN <<DigitChar[n + 1]>>
    ELSE NatStr(n \div 10) \o <<DigitChar[(n % 10) + 1]>>

\* str(n) of an int
IntStr(n) == IF n < 0 THEN <<"-">> \o NatStr(0 - n) ELSE NatStr(n)

RECURSIVE Pad(_, _)
\* zero padding on the left to a width
Pad(s, w) == IF Len(s) >= w THEN s ELSE Pad(<<"0">> \o s, w)

\* s[:n]
Prefix(s, n) == SubSeq(s, 1, IF Len(s) < n THEN Len(s) ELSE n)

\* whether sub occurs in s
Contains(s, sub) ==
    \E i \in 1..(Len(s) - Len(sub) + 1) : SubSeq(s, i, i + Len(sub) - 1) = sub

(***************************************************************************)
(* Dates.                                                                  *)
(***************************************************************************)
IsLeap(y) == (y % 4 = 0 /\ y % 100 # 0) \/ y % 400 = 0

DaysInMonth(y, m) ==
    IF m = 2 THEN (IF IsLeap(y) THEN 29 ELSE 28)
    ELSE IF m \in {4, 6, 9, 11} THEN 30 ELSE 31

\* whether date(y, m, d) constructs
ValidDate(y, m, d) ==
    /\ y \in 1..9999
    /\ m \in 1..12
    /\ d \in 1..DaysInMonth(y, m)

Date(y, m, d) == [y |-> y, m |-> m, d |-> d]

\* the order of dates
DateNum(t) == t.y * 10000 + t.m * 100 + t.d

\* f"{t:%Y%m%d}"
FmtYmd(t) == Pad(NatStr(t.y), 4) \o Pad(NatStr(t.m), 2) \o Pad(NatStr(t.d), 2)

\* f"{t:%m%d}"
FmtMd(t) == Pad(NatStr(t.m), 2) \o Pad(NatStr(t.d), 2)

\* the order of equal-length digit strings (SQL "between" on to_char values)
StrNum(s) == IF Len(s) = 0 THEN 0
             ELSE LET F[i \in 0..Len(s)] ==
                        IF i = 0 THEN 0
                        ELSE F[i - 1] * 10
                             + (CHOOSE k \in 0..9 : DigitChar[k + 1] = s[i])
                  IN F[Len(s)]

(***************************************************************************)
(* Fractions: the model's real numbers.                                    *)
(***************************************************************************)
Frac(n, d) == [n |-> n, d |-> d]

FracLT(a, b) == a.n * b.d < b.n * a.d

FracLE(a, b) == a.n * b.d <= b.n * a.d

\* a * b
FracMul(a, b) == Frac(a.n * b.n, a.d * b.d)

\* the bin edge e (hundredths) as a number
Edge(e) == Frac(e, 100)

(***************************************************************************)
(* The module's lookup tables.                                             *)
(***************************************************************************)
Variables == {"avg_loss", "qc_precip", "avg_delivery", "avg_runoff", "dt", "slp"}

V2MULTI ==
    [avg_loss |-> Frac(4463, 1000),
     qc_precip |-> Frac(10, 254),
     avg_delivery |-> Frac(4463, 1000),
     avg_runoff |-> Frac(10, 254),
     dt |-> Frac(1, 1),
     slp |-> Frac(1, 1)]

V2UNITS ==
    [avg_loss |-> <<"t", "o", "n", "s", "/", "a", "c", "r", "e">>,
     qc_precip |-> <<"i", "n", "c", "h", "e", "s">>,
     avg_delivery |-> <<"t", "o", "n", "s", "/", "a", "c", "r", "e">>,
     avg_runoff |-> <<"i", "n", "c", "h", "e", "s">>,
     dt |-> <<"c", "a", "t", "e", "g", "o", "r", "i", "c", "a", "l">>,
     slp |-> <<"r", "a", "t", "i", "o">>]

\* the characters of a variable code
VStr ==
    [avg_loss |-> <<"a", "v", "g", "_", "l", "o", "s", "s">>,
     qc_precip |-> <<"q", "c", "_", "p", "r", "e", "c", "i", "p">>,
     avg_delivery |-> <<"a", "v", "g", "_", "d", "e", "l", "i", "v", "e", "r", "y">>,
     avg_runoff |-> <<"a", "v", "g", "_", "r", "u", "n", "o", "f", "f">>,
     dt |-> <<"d", "t">>,
     slp |-> <<"s", "l", "p">>]

\* pyiem.dep.RAMPS["english"]: the daily, the period and the yearly ramp,
\* one list each for every variable; edges in hundredths
RAMPS ==
    << <<0, 10, 25, 50, 75, 100, 150, 200, 300, 500>>,
       <<0, 50, 100, 200, 300, 400, 500, 700, 1000, 2000>>,
       <<0, 100, 200, 300, 400, 500, 700, 1000, 1500, 2000, 2500>> >>

\* date(2007, 1, 1), the floor of the freshness gate
Floor == Date(2007, 1, 1)

(***************************************************************************)
(* The store.  db = [marker, level]: the date of the 'last_date_0'         *)
(* property (None when the row is absent) and the magnitude of the metric  *)
(* rows.  The scenarios and huc12 tables are fixed.                        *)
(***************************************************************************)
H306 == <<"0", "7", "0", "8", "0", "1", "0", "5", "0", "3", "0", "6">>
H307 == <<"0", "7", "0", "8", "0", "1", "0", "5", "0", "3", "0", "7">>
H101 == <<"0", "7", "0", "2", "0", "0", "0", "9", "0", "1", "0", "1">>

\* table scenarios (id, huc12_scenario, label): ids above 1 have no row
ScenariosTable ==
    { [id |-> 0, huc12_scenario |-> 0, label |-> "Production"],
      [id |-> 1, huc12_scenario |-> 0, label |-> "Alternate tillage"] }

\* table huc12 (huc_12, scenario, states, dominant_tillage,
\* average_slope_ratio); the geometry of a row is identified by its huc_12
Huc12Table ==
    { [huc_12 |-> H306, scenario |-> 0, states |-> <<"I", "A">>,
       dominant_tillage |-> Some(Frac(2, 1)),
       average_slope_ratio |-> Some(Frac(4, 100))],
      [huc_12 |-> H307, scenario |-> 0, states |-> <<"I", "A", ",", "M", "N">>,
       dominant_tillage |-> Some(Frac(6, 1)),
       average_slope_ratio |-> Some(Frac(12, 100))],
      [huc_12 |-> H101, scenario |-> 0, states |-> <<"M", "N">>,
       dominant_tillage |-> Some(Frac(4, 1)),
       average_slope_ratio |-> None] }

\* one row of results_by_huc12, the four metric columns scaled by k
ResultRow(h, s, t, k, loss, precip) ==
    [huc_12 |-> h, scenario |-> s, valid |-> t,
     avg_loss |-> k * loss, avg_delivery |-> k * loss,
     qc_precip |-> k * precip, avg_runoff |-> k * (precip - 10)]

\* table results_by_huc12: H306 has no row at all
ResultsTable(dbx) ==
    LET k == dbx.level IN
    { ResultRow(H307, 0, Date(2007, 1, 1), k, 1, 60),
      ResultRow(H307, 0, Date(2007, 6, 15), k, 1, 40),
      ResultRow(H307, 0, Date(2007, 12, 31), k, 1, 30),
      ResultRow(H307, 0, Date(2008, 1, 31), k, 1, 20),
      ResultRow(H101, 0, Date(2007, 1, 1), k, 2, 50),
      ResultRow(H101, 0, Date(2007, 12, 31), k, 2, 70),
      ResultRow(H307, 1, Date(2007, 1, 1), k, 3, 60) }

\* the stored text of a marker date, "%Y-%m-%d"
MarkerStr(t) ==
    Pad(NatStr(t.y), 4) \o <<"-">> \o Pad(NatStr(t.m), 2) \o <<"-">>
        \o Pad(NatStr(t.d), 2)

\* table properties (key, value): the marker is stored as text
PropertiesTable(dbx) ==
    IF dbx.marker = None THEN {}
    ELSE {[key |-> "last_date_0", value |-> MarkerStr(Get(dbx.marker))]}

\* datetime.strptime(s, "%Y-%m-%d").date()
ParseYmd(s) ==
    Date(StrNum(SubSeq(s, 1, 4)), StrNum(SubSeq(s, 6, 7)), StrNum(SubSeq(s, 9, 10)))

(***************************************************************************)
(* get_ts_ts2 and get_mckey.                                               *)
(***************************************************************************)
\* x if o is None else o
OrElse(o, x) == IF o = None THEN x ELSE Get(o)

\* get_ts_ts2: <<ts, ts2>>, or None when date() raises ValueError
get_ts_ts2(env) ==
    LET year2 == OrElse(env.year2, env.year)
        month2 == OrElse(env.month2, env.month)
        day2 == OrElse(env.day2, env.day)
    IN IF ValidDate(env.year, env.month, env.day) /\ ValidDate(year2, month2, day2)
       THEN Some(<<Date(env.year, env.month, env.day), Date(year2, month2, day2)>>)
       ELSE None

\* f"{huc}" of a str or of None
HucStr(huc) == IF huc = None THEN <<"N", "o", "n", "e">> ELSE Get(huc)

\* f"{zoom}" of a float with one decimal place; zoom counts tenths
ZoomStr(zoom) == IntStr(zoom \div 10) \o <<".">> \o NatStr(zoom % 10)

KeyRoot == <<"/", "a", "u", "t", "o", "/", "m", "a", "p", ".", "p", "y", "/">>

\* get_mckey, for an environ whose dates construct
get_mckey(env) ==
    LET w == Get(get_ts_ts2(env))
        full == KeyRoot \o HucStr(env.huc) \o <<"/">> \o FmtYmd(w[1]) \o <<"/">>
                 \o FmtYmd(w[2]) \o <<"/">> \o IntStr(env.scenario) \o <<"/">>
                 \o VStr[env.v]
    IN IF env.overview
       THEN KeyRoot \o HucStr(env.huc) \o <<"/">> \o ZoomStr(env.zoom)
       ELSE full

(***************************************************************************)
(* The queries.                                                            *)
(***************************************************************************)
\* HucLimiter with the HUC8 predicate for every region id of 8 or more
\* characters but 12
HucLimiterPrefix(huc, iowa, mn) ==
    [huc8 |-> IF huc # None /\ Len(Get(huc)) >= 8 /\ Len(Get(huc)) # 12
              THEN huc ELSE None,
     huc12 |-> IF huc # None /\ Len(Get(huc)) = 12 THEN huc ELSE None,
     ia |-> iowa,
     mn |-> mn]

\* make_map's huclimiter and its bound parameters: which predicates the
\* WHERE clause carries
HucLimiter(huc, iowa, mn) ==
    [huc8 |-> IF huc # None /\ Len(Get(huc)) = 8 THEN huc ELSE None,
     huc12 |-> IF huc # None /\ Len(Get(huc)) = 12 THEN huc ELSE None,
     ia |-> iowa,
     mn |-> mn]

\* make_overviewmap's huclimiter
OverviewLimiter(huc) ==
    [huc8 |-> IF huc # None /\ Len(Get(huc)) >= 8 THEN Some(Prefix(Get(huc), 8))
              ELSE None,
     huc12 |-> None, ia |-> FALSE, mn |-> FALSE]

\* whether a huc12 row satisfies the limiter
RowMatches(row, lim) ==
    /\ lim.huc8 # None => Prefix(row.huc_12, 8) = Get(lim.huc8)
    /\ lim.huc12 # None => row.huc_12 = Get(lim.huc12)
    /\ lim.ia => Contains(row.states, <<"I", "A">>)
    /\ lim.mn => Contains(row.states, <<"M", "N">>)

\* the huc12 rows of a geometry scenario that the limiter keeps
Regions(scen, lim) ==
    {r \in Huc12Table : r.scenario = scen /\ RowMatches(r, lim)}

\* make_overviewmap's query
OverviewQuery(huc) ==
    {[huc_12 |-> r.huc_12, data |-> None] : r \in Regions(0, OverviewLimiter(huc))}

\* the categorical snapshot: the column itself
SnapshotQuery(h12scen, lim, colname) ==
    {[huc_12 |-> r.huc_12, data |-> r[colname]] : r \in Regions(h12scen, lim)}

RECURSIVE SumCol(_, _)
\* sum(v) over a set of result rows
SumCol(rows, v) ==
    IF rows = {} THEN 0
    ELSE LET r == CHOOSE x \in rows : TRUE
         IN r[v] + SumCol(rows \ {r}, v)

\* InWindow without the end date
InWindowExclusive(t, a, b) == DateNum(a) <= DateNum(t) /\ DateNum(t) < DateNum(b)

\* valid between :ts and :ts2
InWindow(t, a, b) == DateNum(a) <= DateNum(t) /\ DateNum(t) <= DateNum(b)

\* to_char(valid, 'mmdd') between :sday1 and :sday2
InDays(t, a, b) ==
    StrNum(FmtMd(a)) <= StrNum(FmtMd(t)) /\ StrNum(FmtMd(t)) <= StrNum(FmtMd(b))

\* the period sum: sum(v) per huc_12, left joined, coalesced, times :dbcol
PeriodQuery(dbx, scen, h12scen, lim, v, a, b) ==
    {[huc_12 |-> r.huc_12,
      data |-> Some(Frac(SumCol({x \in ResultsTable(dbx) :
                                    /\ x.huc_12 = r.huc_12
                                    /\ x.scenario = scen
                                    /\ InWindow(x.valid, a, b)}, v) * V2MULTI[v].n,
                         V2MULTI[v].d))]
       : r \in Regions(h12scen, lim)}

\* the day-of-year average: sum(v) / 10. per huc_12, left joined, coalesced,
\* times :dbcol
AveragedQuery(dbx, scen, h12scen, lim, v, a, b) ==
    {[huc_12 |-> r.huc_12,
      data |-> Some(Frac(SumCol({x \in ResultsTable(dbx) :
                                    /\ x.huc_12 = r.huc_12
                                    /\ x.scenario = scen
                                    /\ InDays(x.valid, a, b)
                                    /\ InWindow(x.valid, a, b)}, v) * V2MULTI[v].n,
                         10 * V2MULTI[v].d))]
       : r \in Regions(h12scen, lim)}

\* which of the three queries make_map issues
QueryKind(v, averaged) ==
    IF v \in {"dt", "slp"} THEN "snapshot"
    ELSE IF averaged THEN "averaged" ELSE "period"

\* the frame the query of that kind returns
RunQuery(kind, dbx, env, h12scen, a, b) ==
    LET lim == HucLimiter(env.huc, env.iowa, env.mn) IN
    CASE kind = "snapshot" ->
           SnapshotQuery(h12scen, lim,
                         IF env.v = "dt" THEN "dominant_tillage"
                         ELSE "average_slope_ratio")
      [] kind = "averaged" ->
           AveragedQuery(dbx, env.scenario, h12scen, lim, env.v, a, b)
      [] OTHER ->
           PeriodQuery(dbx, env.scenario, h12scen, lim, env.v, a, b)

(***************************************************************************)
(* Colour bins.                                                            *)
(***************************************************************************)
RECURSIVE Sorted(_)
\* the non-null data of a frame in ascending order
Sorted(rows) ==
    IF rows = {} THEN <<>>
    ELSE LET r == CHOOSE x \in rows :
                     \A q \in rows : FracLE(Get(x.data), Get(q.data))
         IN <<Get(r.data)>> \o Sorted(rows \ {r})

\* df["data"].describe(percentiles=[0.95])["95%"]: linear interpolation at
\* rank (n - 1) * 0.95 over the non-null values (which share a
\* denominator); None is NaN
Percentile95(frame) ==
    LET vals == Sorted({r \in frame : r.data # None})
        n == Len(vals)
        lo == ((n - 1) * 19) \div 20 + 1
        k == ((n - 1) * 19) % 20
        hi == IF lo < n THEN lo + 1 ELSE lo
    IN IF n = 0 THEN None
       ELSE Some(Frac(vals[lo].n * 20 + k * (vals[hi].n - vals[lo].n),
                      vals[lo].d * 20))

\* df["data"].mean() over the non-null values; None is NaN
Mean(frame) ==
    LET vals == Sorted({r \in frame : r.data # None})
        S[i \in 0..Len(vals)] == IF i = 0 THEN 0 ELSE S[i - 1] + vals[i].n
    IN IF Len(vals) = 0 THEN None
       ELSE Some(Frac(S[Len(vals)], Len(vals) * vals[1].d))

\* the round steps a tick locator chooses from, in hundredths
NiceSteps == {10, 20, 25, 50, 100, 200, 250, 500, 1000}

\* pretty_bins(0, p): edges 0, step, 2 step, ... up to the first one that
\* reaches p, step the smallest round step that gives at most 8 bins
pretty_bins(p) ==
    LET fits(s) == s * 8 * p.d >= 100 * p.n
        step == CHOOSE s \in NiceSteps :
                    fits(s) /\ \A q \in NiceSteps : q < s => ~fits(q)
        m == CHOOSE i \in 1..8 :
                 i * step * p.d >= 100 * p.n /\ (i - 1) * step * p.d < 100 * p.n
    IN [i \in 1..(m + 1) |-> (i - 1) * step]

\* BaseRamp with a ramp of its own for precipitation and runoff
BaseRampByFamily(a, b, env) ==
    IF env.v \in {"qc_precip", "avg_runoff"} THEN 2 ELSE IF a = b THEN 0 ELSE 1

\* BaseRamp with averaged requests always on the period ramp
BaseRampByAveraged(a, b, env) == IF a = b /\ ~env.averaged THEN 0 ELSE 1

\* the base ramp's index: by the shape of the window
BaseRamp(a, b, env) == IF a = b THEN 0 ELSE 1

\* ShouldRebin against bins[0] instead of bins[-1]
ShouldRebinFirstEdge(p, base) == p # None /\ FracLT(Edge(base[1]), Get(p))

\* not pd.isna(p95) and p95 > bins[-1]
ShouldRebin(p, base) == p # None /\ FracLT(Edge(base[Len(base)]), Get(p))

\* Rebinned without the assignment to bins[0]
RebinnedKeepZero(p) == pretty_bins(p)

\* bins = pretty_bins(0, p95); bins[0] = 0.01
Rebinned(p) == [pretty_bins(p) EXCEPT ![1] = 1]

\* FinalBins without the override for "dt"
FinalBinsNoTillage(v, b) ==
    IF v = "slp" THEN <<0, 1, 3, 5, 7, 10, 50>> ELSE b

\* the overrides for the categorical variables
FinalBins(v, b) ==
    IF v = "slp" THEN <<0, 1, 3, 5, 7, 10, 50>>
    ELSE IF v = "dt" THEN [i \in 1..7 |-> i * 100]
    ELSE b

\* mpcolors.BoundaryNorm(bins, cmap.N) applied to one value: the bin that
\* holds it (bins[i] <= x < bins[i+1]), under below the first edge, over
\* from the last edge on, bad for NaN
Norm(b, x) ==
    IF x = None THEN <<"bad">>
    ELSE IF FracLT(Get(x), Edge(b[1])) THEN <<"under">>
    ELSE IF FracLE(Edge(b[Len(b)]), Get(x)) THEN <<"over">>
    ELSE LET i == CHOOSE j \in 1..(Len(b) - 1) :
                      FracLE(Edge(b[j]), Get(x)) /\ FracLT(Get(x), Edge(b[j + 1]))
         IN <<"bin", i>>

(***************************************************************************)
(* The freshness gate.                                                     *)
(***************************************************************************)
\* the 'last_date_0' property, or datetime(2007, 1, 1) without the row
LastTs(dbx) ==
    IF PropertiesTable(dbx) = {} THEN Date(2007, 1, 1)
    ELSE ParseYmd((CHOOSE r \in PropertiesTable(dbx) : r.key = "last_date_0").value)

\* GateFails with the start date compared by >=
GateFailsInclusive(a, b, last) ==
    \/ DateNum(a) >= DateNum(last)
    \/ DateNum(b) > DateNum(last)
    \/ DateNum(a) < DateNum(Floor)

\* ts > lastts.date() or ts2 > lastts.date() or ts < floor
GateFails(a, b, last) ==
    \/ DateNum(a) > DateNum(last)
    \/ DateNum(b) > DateNum(last)
    \/ DateNum(a) < DateNum(Floor)

(***************************************************************************)
(* Titles and annotations.                                                 *)
(***************************************************************************)
\* which title make_map writes, and the units' suffix
TitleMode(a, b, averaged) ==
    IF a = b THEN "day"
    ELSE IF ~averaged THEN "period"
    ELSE IF FmtMd(a) = <<"0", "1", "0", "1">> /\ FmtMd(b) = <<"1", "2", "3", "1">>
         THEN "averaged years"
    ELSE "averaged between"

AExtra(a, b, averaged) == IF a # b /\ averaged THEN <<"/", "y", "r">> ELSE <<>>

\* the colour map: james for precipitation and runoff, dep_erosion otherwise
ColorMap(v) ==
    IF v \in {"qc_precip", "avg_runoff"} THEN "james" ELSE "dep_erosion"

\* date.toordinal()
Ordinal(t) ==
    LET y == t.y - 1
        M[i \in 0..12] == IF i = 0 THEN 0 ELSE M[i - 1] + DaysInMonth(t.y, i)
    IN y * 365 + y \div 4 - y \div 100 + y \div 400 + M[t.m - 1] + t.d

\* label_scenario: the label drawn, None when nothing is drawn
label_scenario(scenario) ==
    IF scenario = 0 THEN None
    ELSE IF \A r \in ScenariosTable : r.id # scenario THEN None
    ELSE Some((CHOOSE r \in ScenariosTable : r.id = scenario).label)

(***************************************************************************)
(* The request: the iemapp wrapper with its memcache, application, then    *)
(* make_overviewmap or the steps of make_map.                              *)
(***************************************************************************)
\* the request ends with an exception
Raise(e) ==
    /\ pc' = "done"
    /\ outcome' = e

\* df.empty left unchecked
IsEmptyNever(frame) == FALSE

\* df.empty
IsEmpty(frame) == frame = {}

\* make_map's steps with the aggregate query ahead of the gate
MakeMapStepsQueryFirst ==
    <<"make_map", "query", "gate", "bins", "render", "respond">>

\* the order of make_map's steps
MakeMapSteps == <<"make_map", "gate", "query", "bins", "render", "respond">>

\* the step after a step of make_map
After(step) ==
    MakeMapSteps[(CHOOSE i \in 1..(Len(MakeMapSteps) - 1) : MakeMapSteps[i] = step) + 1]

\* iemapp: the key of the request, and the cached body when there is one
Lookup ==
    /\ pc = "lookup"
    /\ IF get_ts_ts2(environ) = None
       THEN /\ Raise("ValueError")
            /\ UNCHANGED <<key, image>>
       ELSE LET k == get_mckey(environ) IN
            /\ key' = Some(k)
            /\ IF \E c \in cache : c.key = k
               THEN /\ image' = Some((CHOOSE c \in cache : c.key = k).body)
                    /\ pc' = "done"
                    /\ outcome' = "cached"
               ELSE /\ pc' = "application"
                    /\ UNCHANGED <<image, outcome>>
    /\ UNCHANGED <<environ, arrivals, db, cache, ts, ts2, huc12_scenario, lastts,
                   gate, queries, df, ramp, p95, bins, prettyCalls>>

\* application: resolve the window and pick the renderer
Application ==
    /\ pc = "application"
    /\ LET w == get_ts_ts2(environ) IN
       IF w = None
       THEN /\ Raise("ValueError")
            /\ UNCHANGED <<ts, ts2>>
       ELSE /\ ts' = Some(Get(w)[1])
            /\ ts2' = Some(Get(w)[2])
            /\ pc' = IF environ.overview /\ environ.huc # None
                     THEN "make_overviewmap" ELSE "make_map"
            /\ UNCHANGED outcome
    /\ UNCHANGED <<environ, arrivals, db, cache, key, huc12_scenario, lastts, gate,
                   queries, df, ramp, p95, bins, prettyCalls, image>>

\* make_overviewmap: query, NoDataFound on an empty frame, else the picture
MakeOverviewMap ==
    /\ pc = "make_overviewmap"
    /\ LET frame == OverviewQuery(environ.huc) IN
       /\ queries' = Append(queries, "overview")
       /\ df' = frame
       /\ IF IsEmpty(frame)
          THEN /\ Raise("NoDataFound")
               /\ UNCHANGED image
          ELSE /\ pc' = "respond"
               /\ image' = Some([kind |-> "overview",
                                 fills |-> {<<r.huc_12,
                                              IF Some(r.huc_12) = environ.huc
                                              THEN <<"red">> ELSE <<"tan">>>>
                                            : r \in frame},
                                 zoom |-> environ.zoom,
                                 counties |-> environ.huc # None,
                                 dpi |-> 100])
               /\ UNCHANGED outcome
    /\ UNCHANGED <<environ, arrivals, db, cache, key, ts, ts2, huc12_scenario,
                   lastts, gate, ramp, p95, bins, prettyCalls>>

\* make_map, to the huc12_scenario lookup: fetchone() is None without a row
LookupScenario ==
    /\ pc = "make_map"
    /\ queries' = Append(queries, "huc12_scenario")
    /\ IF \A r \in ScenariosTable : r.id # environ.scenario
       THEN /\ Raise("TypeError")
            /\ UNCHANGED huc12_scenario
       ELSE /\ huc12_scenario' =
                  Some((CHOOSE r \in ScenariosTable :
                            r.id = environ.scenario).huc12_scenario)
            /\ pc' = After("make_map")
            /\ UNCHANGED outcome
    /\ UNCHANGED <<environ, arrivals, db, cache, key, ts, ts2, lastts, gate, df,
                   ramp, p95, bins, prettyCalls, image>>

\* make_map, the check that there is data for the window
FreshnessGate ==
    /\ pc = "gate"
    /\ queries' = Append(queries, "last_date_0")
    /\ lastts' = Some(LastTs(db))
    /\ IF GateFails(Get(ts), Get(ts2), LastTs(db))
       THEN /\ gate' = "failed"
            /\ Raise("NoDataFound")
       ELSE /\ gate' = "passed"
            /\ pc' = After("gate")
            /\ UNCHANGED outcome
    /\ UNCHANGED <<environ, arrivals, db, cache, key, ts, ts2, huc12_scenario, df,
                   ramp, p95, bins, prettyCalls, image>>

\* make_map, the aggregate query and the empty-frame check
FetchData ==
    /\ pc = "query"
    /\ LET kind == QueryKind(environ.v, environ.averaged)
           frame == RunQuery(kind, db, environ, Get(huc12_scenario),
                             Get(ts), Get(ts2))
       IN /\ queries' = Append(queries, kind)
          /\ df' = frame
          /\ IF IsEmpty(frame)
             THEN Raise("NoDataFound")
             ELSE /\ pc' = After("query")
                  /\ UNCHANGED outcome
    /\ UNCHANGED <<environ, arrivals, db, cache, key, ts, ts2, huc12_scenario,
                   lastts, gate, ramp, p95, bins, prettyCalls, image>>

\* make_map, the choice of the bins
SelectBins ==
    /\ pc = "bins"
    /\ LET i == BaseRamp(Get(ts), Get(ts2), environ)
           base == RAMPS[i + 1]
           p == Percentile95(df)
           rebin == ShouldRebin(p, base)
       IN /\ ramp' = Some(i)
          /\ p95' = p
          /\ prettyCalls' = IF rebin THEN prettyCalls + 1 ELSE prettyCalls
          /\ bins' = FinalBins(environ.v, IF rebin THEN Rebinned(Get(p)) ELSE base)
    /\ pc' = After("bins")
    /\ UNCHANGED <<environ, arrivals, db, cache, key, ts, ts2, huc12_scenario,
                   lastts, gate, queries, df, image, outcome>>

\* make_map, the drawing: polygons, scenario label, colorbar, progress bar,
\* crude conversion (avgval / 5.0 with avgval None is a TypeError), savefig
Render ==
    /\ pc = "render"
    /\ LET avgval == IF environ.progressbar THEN Some(Mean(df)) ELSE None IN
       IF environ.cruse /\ avgval = None
       THEN /\ Raise("TypeError")
            /\ UNCHANGED image
       ELSE /\ pc' = After("render")
            /\ UNCHANGED outcome
            /\ image' =
                 Some([kind |-> "map",
                       title |-> TitleMode(Get(ts), Get(ts2), environ.averaged),
                       fills |-> {<<r.huc_12, Norm(bins, r.data)>> : r \in df},
                       label |-> label_scenario(environ.scenario),
                       counties |-> environ.huc # None,
                       bins |-> bins,
                       cmap |-> ColorMap(environ.v),
                       units |-> V2UNITS[environ.v]
                                   \o AExtra(Get(ts), Get(ts2), environ.averaged),
                       progress |-> IF environ.progressbar
                                    THEN Some(<<Get(avgval),
                                                Ordinal(Get(ts2)) - Ordinal(Get(ts))>>)
                                    ELSE None,
                       badge |-> IF environ.cruse
                                 THEN Some(IF Get(avgval) = None THEN None
                                           ELSE Some(FracMul(Get(Get(avgval)),
                                                             Frac(1, 5))))
                                 ELSE None,
                       dpi |-> environ.dpi])
    /\ UNCHANGED <<environ, arrivals, db, cache, key, ts, ts2, huc12_scenario,
                   lastts, gate, queries, df, ramp, p95, bins, prettyCalls>>

\* iemapp: the body is stored under the key and returned
Respond ==
    /\ pc = "respond"
    /\ cache' = {c \in cache : c.key # Get(key)}
                  \cup {[key |-> Get(key), body |-> Get(image), env |-> environ]}
    /\ pc' = "done"
    /\ outcome' = "image"
    /\ UNCHANGED <<environ, arrivals, db, key, ts, ts2, huc12_scenario, lastts,
                   gate, queries, df, ramp, p95, bins, prettyCalls, image>>

\* the next request arrives
Arrive ==
    /\ pc = "done"
    /\ arrivals # <<>>
    /\ environ' = Head(arrivals)
    /\ arrivals' = Tail(arrivals)
    /\ pc' = "lookup"
    /\ key' = None
    /\ ts' = None
    /\ ts2' = None
    /\ huc12_scenario' = None
    /\ lastts' = None
    /\ gate' = "pending"
    /\ queries' = <<>>
    /\ df' = {}
    /\ ramp' = None
    /\ p95' = None
    /\ bins' = <<>>
    /\ prettyCalls' = 0
    /\ image' = None
    /\ outcome' = "pending"
    /\ UNCHANGED <<db, cache>>

Next ==
    \/ Lookup
    \/ Application
    \/ MakeOverviewMap
    \/ LookupScenario
    \/ FreshnessGate
    \/ FetchData
    \/ SelectBins
    \/ Render
    \/ Respond
    \/ Arrive

(***************************************************************************)
(* Requests and stores.                                                    *)
(***************************************************************************)
\* the years a request may name
Years == (Floor.y - 1)..(Floor.y - 1 + YearSpan)

H8 == <<"0", "7", "0", "8", "0", "1", "0", "5">>
H10 == <<"0", "7", "0", "8", "0", "1", "0", "5", "0", "3">>
H8x == <<"1", "0", "2", "4", "0", "0", "0", "1">>

\* an environ as the Schema hands it over (zoom in tenths)
Environ(w, scenario, v, huc, overview, averaged, progressbar, cruse, iowa, mn) ==
    [year |-> w[1], month |-> w[2], day |-> w[3],
     year2 |-> w[4], month2 |-> w[5], day2 |-> w[6],
     scenario |-> scenario, v |-> v, huc |-> huc, zoom |-> 100,
     overview |-> overview, averaged |-> averaged, progressbar |-> progressbar,
     cruse |-> cruse, iowa |-> iowa, mn |-> mn, dpi |-> 100]

\* the state the first request of a run arrives in: R the runs (the first
\* request and the ones that follow it), D the stores
Start(R, D) ==
    /\ \E r \in R : environ = r[1] /\ arrivals = r[2]
    /\ db \in D
    /\ cache = {}
    /\ pc = "lookup"
    /\ key = None
    /\ ts = None
    /\ ts2 = None
    /\ huc12_scenario = None
    /\ lastts = None
    /\ gate = "pending"
    /\ queries = <<>>
    /\ df = {}
    /\ ramp = None
    /\ p95 = None
    /\ bins = <<>>
    /\ prettyCalls = 0
    /\ image = None
    /\ outcome = "pending"

\* the region ids a scoped request may carry: none, a HUC8, ten digits, the
\* three HUC12s of the store, a HUC8 the store does not hold
Hucs == {None, Some(H8), Some(H10), Some(H306), Some(H307), Some(H101), Some(H8x)}

\* overview requests, one for each region id
OverviewRequests ==
    { Environ(<<Floor.y, 1, 1, None, None, None>>, 0, "avg_loss", h, TRUE,
              FALSE, FALSE, FALSE, FALSE, FALSE) : h \in Hucs }

\* each request alone, and the overview requests asked twice
Runs(E) == {<<e, <<>>>> : e \in E} \cup {<<e, <<e>>>> : e \in OverviewRequests}

\* windows around the floor and the markers
GateRequests ==
    { Environ(<<y, m, 1, y2, m2, d2>>, s, v, h, o, FALSE, FALSE, FALSE, FALSE, FALSE) :
        y \in Years, m \in {1, 6},
        y2 \in {None} \cup {Some(x) : x \in Years},
        m2 \in {None, Some(12)}, d2 \in {None, Some(31)},
        s \in 0..MaxScenario, v \in {"avg_loss", "dt"},
        h \in {None, Some(H306)}, o \in BOOLEAN }

GateStores ==
    { [marker |-> mk, level |-> 1] :
        mk \in {None, Some(Date(Floor.y, 6, 1)), Some(Date(Floor.y, 12, 31)),
                Some(Date(Floor.y + 1, 12, 31))} }

Init == Start(Runs(GateRequests), GateStores)

Spec == Init /\ [][Next]_vars

\* every variable, scope and aggregation over windows the stores cover
BinRequests ==
    { Environ(<<Floor.y, 1, 1, y2, m2, d2>>, s, v, h, FALSE, a, FALSE, FALSE, ia, mn) :
        y2 \in {None, Some(Floor.y + 1)},
        m2 \in {None, Some(12)}, d2 \in {None, Some(31)},
        s \in {0, 1}, v \in Variables, h \in Hucs,
        a \in BOOLEAN, ia \in BOOLEAN, mn \in BOOLEAN }

BinStores ==
    { [marker |-> Some(Date(Floor.y + 1, 12, 31)), level |-> k] :
        k \in 0..MaxLevel }

InitBins == Start(Runs(BinRequests \cup OverviewRequests), BinStores)

SpecBins == InitBins /\ [][Next]_vars

\* pairs of requests for the cache key: the first is rendered and stored,
\* the second looked up
KeyWindows ==
    { <<Floor.y, 1, 1, None, None, None>>, <<Floor.y, 1, 1, None, None, Some(31)>>,
      <<Floor.y, 1, 31, None, None, None>> }

KeyRequests ==
    { [Environ(w, s, v, h, o, FALSE, FALSE, FALSE, FALSE, FALSE) EXCEPT !.zoom = z] :
        w \in KeyWindows, s \in {0, 1}, v \in {"avg_loss", "qc_precip"},
        h \in {None, Some(<<"N", "o", "n", "e">>), Some(H306)},
        o \in BOOLEAN, z \in {100, 115} }

KeyRuns ==
    {<<a, <<b>>>> : a \in {e \in KeyRequests : e.zoom = 100}, b \in KeyRequests}

InitKey ==
    Start(KeyRuns, {[marker |-> Some(Date(Floor.y + 1, 12, 31)), level |-> 1]})

SpecKey == InitKey /\ [][Next]_vars

\* requests over every drawing flag and two resolutions, for a single day
\* and for a year
FlagRequests ==
    { [Environ(<<Floor.y, 1, 1, None, m2, m2>>, 0, "avg_loss", h, o,
               a, pb, cr, ia, mn) EXCEPT !.dpi = dpi,
                                         !.day2 = IF m2 = None THEN None ELSE Some(31)] :
        m2 \in {None, Some(12)}, h \in {None, Some(H307)}, o \in BOOLEAN,
        a \in BOOLEAN, pb \in BOOLEAN, cr \in BOOLEAN, ia \in BOOLEAN,
        mn \in BOOLEAN, dpi \in {100, 150} }

\* the plain requests: no flag set, the default resolution
PlainRequests ==
    { e \in FlagRequests :
        ~e.averaged /\ ~e.progressbar /\ ~e.cruse /\ ~e.iowa /\ ~e.mn /\ e.dpi = 100 }

\* each request alone, and each after a plain request
FlagRuns ==
    {<<e, <<>>>> : e \in FlagRequests}
        \cup {<<a, <<b>>>> : a \in PlainRequests, b \in FlagRequests}

InitFlags ==
    Start(FlagRuns, {[marker |-> Some(Date(Floor.y + 1, 12, 31)), level |-> 1]})

SpecFlags == InitFlags /\ [][Next]_vars

(***************************************************************************)
(* Properties.                                                             *)
(***************************************************************************)
\* the last-available date as the store holds it
ClaimLast == IF db.marker = None THEN Date(2007, 1, 1) ELSE Get(db.marker)

\* the window is outside the data
ClaimOutside ==
    \/ DateNum(Get(ts)) > DateNum(ClaimLast)
    \/ DateNum(Get(ts2)) > DateNum(ClaimLast)
    \/ DateNum(Get(ts)) < 20070101

\* the day after a date
NextDay(t) ==
    IF t.d < DaysInMonth(t.y, t.m) THEN Date(t.y, t.m, t.d + 1)
    ELSE IF t.m < 12 THEN Date(t.y, t.m + 1, 1)
    ELSE Date(t.y + 1, 1, 1)

AggregateQueries == {"snapshot", "period", "averaged"}

\* the request has fetched its frame
Fetched == queries # <<>> /\ queries[Len(queries)] \in AggregateQueries

\* the request has chosen its bins
Binned == ramp # None

Continuous == environ.v \notin {"dt", "slp"}

\* C1: once make_map evaluates the freshness gate, the request fails with
\* NoDataFound exactly when ts or ts2 is later than the last-available date
\* (the 'last_date_0' marker, 2007-01-01 without one) or ts is earlier
\* than 2007-01-01, and passes the gate otherwise; a start date one day
\* after the marker fails, a single day equal to the marker passes.
C1_FreshnessGate ==
    gate # "pending" =>
        /\ gate = "failed" <=> ClaimOutside
        /\ gate = "failed" => pc = "done" /\ outcome = "NoDataFound" /\ image = None
        /\ gate = "passed" => ~(pc = "done" /\ outcome = "NoDataFound" /\ ~Fetched)
        /\ (db.marker # None /\ Get(ts) = NextDay(Get(db.marker)))
              => gate = "failed" /\ outcome = "NoDataFound"
        /\ (db.marker # None /\ Get(ts) = Get(db.marker) /\ Get(ts2) = Get(db.marker))
              => gate = "passed"

\* a request that starts the day after the marker has failed with NoDataFound
C1_Witness ==
    /\ db.marker # None
    /\ ts # None
    /\ Get(ts) = NextDay(Get(db.marker))
    /\ gate = "failed"
    /\ outcome = "NoDataFound"

\* C2: an aggregate query (snapshot, period sum, day-of-year average) is
\* issued only after the marker was read and the gate passed; a request
\* whose window fails the gate issues none.
C2_GateBeforeQuery ==
    /\ \A i \in DOMAIN queries :
          queries[i] \in AggregateQueries =>
              /\ \E j \in 1..(i - 1) : queries[j] = "last_date_0"
              /\ gate = "passed"
              /\ ~ClaimOutside
    /\ (ts # None /\ lastts # None /\ ClaimOutside) =>
          \A i \in DOMAIN queries : queries[i] \notin AggregateQueries

\* a request failed the gate and ended without an aggregate query
C2_Witness ==
    /\ pc = "done"
    /\ gate = "failed"
    /\ ClaimOutside
    /\ queries = <<"huc12_scenario", "last_date_0">>

\* C3: an empty fetched frame ends the request with NoDataFound and without
\* an image, in make_map and in make_overviewmap: no image, rendered or
\* cached, shows an empty frame.
C3_EmptyIsNoData ==
    /\ (queries # <<>> /\ queries[Len(queries)] \in AggregateQueries \cup {"overview"}
          /\ df = {})
         => pc = "done" /\ outcome = "NoDataFound" /\ image = None
    /\ image # None => Get(image).fills # {}
    /\ \A c \in cache : c.body.fills # {}

\* make_map's query matched no region and the request ended with NoDataFound
C3_Witness ==
    /\ Fetched
    /\ df = {}
    /\ pc = "done"
    /\ outcome = "NoDataFound"

\* the inputs of the full key: region, start date, end date, scenario,
\* variable
KeyInputs(env) ==
    LET w == Get(get_ts_ts2(env))
    IN <<env.huc, w[1], w[2], env.scenario, env.v>>

\* in how many of the inputs of the full key two requests differ
KeyInputsChanged(a, b) ==
    Cardinality({i \in 1..5 : KeyInputs(a)[i] # KeyInputs(b)[i]})

\* C4: get_mckey gives identical requests identical keys; outside overview
\* mode two requests that differ in exactly one of region, start date, end
\* date, scenario and variable get different keys; in overview mode the
\* key is decided by region and zoom alone.
C4_KeyChangesWithEachInput ==
    \A c \in cache :
        key # None =>
            /\ c.env = environ => c.key = Get(key)
            /\ (~c.env.overview /\ ~environ.overview
                  /\ KeyInputsChanged(c.env, environ) = 1) => c.key # Get(key)
            /\ (c.env.overview /\ environ.overview /\ c.env.huc = environ.huc
                  /\ c.env.zoom = environ.zoom) => c.key = Get(key)

\* C4 with region ids compared as get_mckey writes them: an absent region
\* id and the region id "None" count as the same region
C4_KeyChangesWithEachWrittenInput ==
    \A c \in cache :
        key # None =>
            /\ c.env = environ => c.key = Get(key)
            /\ (~c.env.overview /\ ~environ.overview
                  /\ KeyInputsChanged(c.env, environ) = 1
                  /\ HucStr(c.env.huc) # HucStr(environ.huc)) => c.key # Get(key)
            /\ (~c.env.overview /\ ~environ.overview
                  /\ KeyInputsChanged(c.env, environ) = 1
                  /\ c.env.huc = environ.huc) => c.key # Get(key)
            /\ (c.env.overview /\ environ.overview /\ c.env.huc = environ.huc
                  /\ c.env.zoom = environ.zoom) => c.key = Get(key)

\* the window's percentile is over the top edge of the base ramp
OverTop ==
    /\ p95 # None
    /\ LET base == RAMPS[Get(ramp) + 1]
       IN Get(p95).n * 100 > base[Len(base)] * Get(p95).d

\* the bins of a continuous request were regenerated
RebinCase == Binned /\ Continuous /\ OverTop

\* C5 as stated: when the percentile exceeds the top edge, the bottom edge
\* of the regenerated bins is above 0 and the value 0 lies inside the
\* lowest bin.
C5_ZeroInLowestBin ==
    RebinCase => bins[1] > 0 /\ bins[1] <= 0 /\ 0 < bins[2]

\* C5, amended: when the percentile exceeds the top edge, the regenerated
\* edges increase strictly from a bottom edge of 0.01 up to an edge that
\* reaches the percentile; the value 0 lies below the bottom edge, and a
\* region whose value is 0 is drawn in the under-range colour.
C5_ZeroBelowLowestBin ==
    RebinCase =>
        /\ bins[1] = 1
        /\ \A i \in 1..(Len(bins) - 1) : bins[i] < bins[i + 1]
        /\ bins[Len(bins)] * Get(p95).d >= Get(p95).n * 100
        /\ (image # None /\ outcome # "cached") =>
              \A r \in df : Get(r.data).n = 0 => <<r.huc_12, <<"under">>>> \in Get(image).fills

\* a rendered map with regenerated bins and a region whose value is 0
C5_Witness ==
    /\ RebinCase
    /\ outcome = "image"
    /\ \E r \in df : Get(r.data).n = 0
    /\ \E f \in Get(image).fills : f[2][1] = "bin"

\* the fixed bins of the categorical variables
CategoricalBins ==
    IF environ.v = "dt" THEN <<100, 200, 300, 400, 500, 600, 700>>
    ELSE <<0, 1, 3, 5, 7, 10, 50>>

\* C6 as stated: a request for "dt" or "slp" never calls pretty_bins and
\* ends with the fixed bins.
C6_CategoricalNeverRebins ==
    (Binned /\ ~Continuous) => prettyCalls = 0 /\ bins = CategoricalBins

\* C6, amended: a request for "dt" or "slp" ends with the fixed bins 1..7
\* and [0, 0.01, 0.03, 0.05, 0.07, 0.1, 0.5], whether or not pretty_bins
\* was called on its data on the way.
C6_CategoricalBinsFixed ==
    (Binned /\ ~Continuous) =>
        /\ bins = CategoricalBins
        /\ image # None /\ outcome # "cached" => Get(image).bins = CategoricalBins

\* a rendered "dt" map for which pretty_bins was called
C6_Witness ==
    /\ environ.v = "dt"
    /\ prettyCalls = 1
    /\ outcome = "image"
    /\ bins = <<100, 200, 300, 400, 500, 600, 700>>

\* C7: a continuous request whose percentile is NaN or not above the top
\* edge of its base ramp keeps the base ramp, and pretty_bins is not
\* called.
C7_BaseRampKept ==
    (Binned /\ Continuous /\ ~OverTop) =>
        /\ bins = RAMPS[Get(ramp) + 1]
        /\ prettyCalls = 0
        /\ image # None /\ outcome # "cached" => Get(image).bins = RAMPS[Get(ramp) + 1]

\* a rendered continuous map with a positive percentile under the top edge
C7_Witness ==
    /\ Binned
    /\ Continuous
    /\ ~OverTop
    /\ Get(p95).n > 0
    /\ outcome = "image"

\* C8: the base ramp is RAMPS[0] for a single day and RAMPS[1] for any
\* other window, whatever the averaged flag and the other inputs.
C8_RampByWindowShape ==
    Binned =>
        /\ Get(ts) = Get(ts2) => ramp = Some(0)
        /\ Get(ts) # Get(ts2) => ramp = Some(1)
        /\ (Continuous /\ prettyCalls = 0) =>
              bins = RAMPS[IF Get(ts) = Get(ts2) THEN 1 ELSE 2]

\* an averaged request for a single day on the daily ramp
C8_Witness ==
    /\ Binned
    /\ environ.averaged
    /\ Continuous
    /\ Get(ts) = Get(ts2)
    /\ ramp = Some(0)
    /\ outcome = "image"

\* the unit multipliers as numerator and denominator
ClaimMulti ==
    [avg_loss |-> <<4463, 1000>>, qc_precip |-> <<10, 254>>,
     avg_delivery |-> <<4463, 1000>>, avg_runoff |-> <<10, 254>>]

\* the stored rows of a region and the request's scenario that a predicate
\* on the date keeps
ClaimRows(h, Keep(_)) ==
    {x \in ResultsTable(db) :
        x.huc_12 = h /\ x.scenario = environ.scenario /\ Keep(x.valid)}

\* the date lies in the window, both ends included
ClaimInPeriod(t) ==
    DateNum(Get(ts)) <= DateNum(t) /\ DateNum(t) <= DateNum(Get(ts2))

\* the date lies in the window and its month and day lie between the
\* window's
ClaimInDays(t) ==
    /\ ClaimInPeriod(t)
    /\ Get(ts).m * 100 + Get(ts).d <= t.m * 100 + t.d
    /\ t.m * 100 + t.d <= Get(ts2).m * 100 + Get(ts2).d

\* the value x equals total * multiplier / divisor
ClaimScaled(x, total, v, divisor) ==
    x # None /\ Get(x).n * ClaimMulti[v][2] * divisor = total * ClaimMulti[v][1] * Get(x).d

\* C9: "dt" and "slp" use the snapshot query whatever the averaged flag
\* and get the stored column as it is; a continuous variable uses the
\* period sum over [ts, ts2], both ends included, without averaged and the
\* day-of-year sum divided by 10 with it; either way the sum is multiplied
\* once by the variable's multiplier, and a region without rows gets 0.
C9_AggregationMode ==
    Fetched =>
        LET kind == queries[Len(queries)] IN
        /\ ~Continuous => kind = "snapshot"
        /\ (Continuous /\ ~environ.averaged) => kind = "period"
        /\ (Continuous /\ environ.averaged) => kind = "averaged"
        /\ Cardinality({i \in DOMAIN queries : queries[i] \in AggregateQueries}) = 1
        /\ \A r \in df :
              /\ environ.v = "dt" =>
                    \E g \in Huc12Table : g.huc_12 = r.huc_12 /\ r.data = g.dominant_tillage
              /\ environ.v = "slp" =>
                    \E g \in Huc12Table : g.huc_12 = r.huc_12 /\ r.data = g.average_slope_ratio
              /\ (Continuous /\ ~environ.averaged) =>
                    ClaimScaled(r.data, SumCol(ClaimRows(r.huc_12, ClaimInPeriod), environ.v),
                                environ.v, 1)
              /\ (Continuous /\ environ.averaged) =>
                    ClaimScaled(r.data, SumCol(ClaimRows(r.huc_12, ClaimInDays), environ.v),
                                environ.v, 10)
              /\ (Continuous /\ ClaimRows(r.huc_12, ClaimInPeriod) = {}) => Get(r.data).n = 0

\* avg_loss for one region on a single day, not averaged: the period sum
\* of its one row times 4.463
C9_Witness ==
    /\ environ.v = "avg_loss"
    /\ environ.huc = Some(H307)
    /\ environ.scenario = 0
    /\ ~environ.averaged
    /\ ts = ts2
    /\ db.level = 1
    /\ queries = <<"huc12_scenario", "last_date_0", "period">>
    /\ df = {[huc_12 |-> H307, data |-> Some(Frac(4463, 1000))]}
    /\ outcome = "image"

\* the states a request names with its flags
ClaimNamedStates ==
    (IF environ.iowa THEN {<<"I", "A">>} ELSE {})
        \cup (IF environ.mn THEN {<<"M", "N">>} ELSE {})

\* the region-id predicates of a request
ClaimHucMatch(g) ==
    /\ (environ.huc # None /\ Len(Get(environ.huc)) = 8) =>
          SubSeq(g.huc_12, 1, 8) = Get(environ.huc)
    /\ (environ.huc # None /\ Len(Get(environ.huc)) = 12) => g.huc_12 = Get(environ.huc)

\* the regions of the fetched frame
ClaimFetchedRegions == {r.huc_12 : r \in df}

\* C10 as stated: the fetched regions are those that satisfy the region-id
\* predicates and, when states are named, lie in one of the named states.
C10_ScopeStateMembership ==
    Fetched =>
        ClaimFetchedRegions =
            {g.huc_12 : g \in {x \in Huc12Table :
                /\ x.scenario = Get(huc12_scenario)
                /\ ClaimHucMatch(x)
                /\ ClaimNamedStates # {} =>
                      \E st \in ClaimNamedStates : Contains(x.states, st)}}

\* C10, amended: the fetched regions are those that satisfy every active
\* predicate, where the region id activates at most one of the HUC8
\* prefix match (8 characters) and the HUC12 exact match (12 characters),
\* and none at any other length, and each state flag is a predicate of its
\* own: with both flags set a region must name both states.
C10_ScopeConjunction ==
    Fetched =>
        /\ ClaimFetchedRegions =
              {g.huc_12 : g \in {x \in Huc12Table :
                  /\ x.scenario = Get(huc12_scenario)
                  /\ ClaimHucMatch(x)
                  /\ \A st \in ClaimNamedStates : Contains(x.states, st)}}
        /\ (environ.huc # None /\ Len(Get(environ.huc)) \notin {8, 12}
              /\ ClaimNamedStates = {}) =>
                ClaimFetchedRegions =
                    {g.huc_12 : g \in {x \in Huc12Table : x.scenario = Get(huc12_scenario)}}

\* a HUC8 request with both state flags set shows the one region of the
\* HUC8 that names both states
C10_Witness ==
    /\ environ.huc = Some(H8)
    /\ environ.iowa
    /\ environ.mn
    /\ Fetched
    /\ ClaimFetchedRegions = {H307}
    /\ outcome = "image"

\* C11: every window that application hands to make_map has its start
\* date on or before its end date, so no aggregate query is built for a
\* window whose end date is earlier than its start date.
C11_WindowOrdered ==
    /\ pc \in {"make_map", "gate", "query", "bins", "render"} =>
          DateNum(Get(ts)) <= DateNum(Get(ts2))
    /\ Fetched => DateNum(Get(ts)) <= DateNum(Get(ts2))

\* C13: a request for a scenario other than 0 that has no row in the
\* scenarios table does not end with an error raised by the miss: it ends
\* as the same request for a known scenario would, and when it is drawn it
\* carries no label; for scenario 0 no label is drawn.
C13_LabelMissNotFatal ==
    /\ (environ.scenario # 0 /\ \A r \in ScenariosTable : r.id # environ.scenario) =>
          /\ outcome # "TypeError"
          /\ (image # None /\ Get(image).kind = "map") => Get(image).label = None
    /\ (environ.scenario = 0 /\ image # None /\ Get(image).kind = "map") =>
          Get(image).label = None

\* C12: a request with cruse set and progressbar not set ends with an
\* image that carries no badge, never with an error.
C12_CruseFailsSilently ==
    (environ.cruse /\ ~environ.progressbar /\ ~environ.overview /\ pc = "done") =>
        /\ outcome \in {"image", "cached"}
        /\ Get(image).badge = None

\* the inputs that decide the image of a request: the renderer, and for the
\* choropleth the window, scenario, variable, flags and resolution, for the
\* overview the region and zoom
ClaimImageInputs(env) ==
    IF env.overview /\ env.huc # None
    THEN <<"overview", env.huc, env.zoom>>
    ELSE <<"map", env.huc # None, get_ts_ts2(env), env.scenario, env.v, env.averaged,
           env.progressbar, env.cruse, env.iowa, env.mn, env.dpi>>

\* C15: a response served from the cache was rendered for a request that
\* takes the same rendering branch as the one it is served to and agrees
\* with it on every input that affects the image.
C15_CacheSound ==
    outcome = "cached" =>
        \A c \in cache :
            c.key = Get(key) => ClaimImageInputs(c.env) = ClaimImageInputs(environ)

\* the two families of continuous variables
ClaimPrecipFamily == {"qc_precip", "avg_runoff"}

ClaimDetachFamily == {"avg_loss", "avg_delivery"}

\* the base ramp the request would get for variable v
ClaimBaseFor(v) == RAMPS[BaseRamp(Get(ts), Get(ts2), [environ EXCEPT !.v = v]) + 1]

\* C14 as stated: for the window of the request, a precipitation or runoff
\* variable and a detachment or delivery variable get different base
\* bin-edge sequences.
C14_RampPerFamily ==
    (Binned /\ Continuous) =>
        \A v1 \in ClaimPrecipFamily, v2 \in ClaimDetachFamily :
            ClaimBaseFor(v1) # ClaimBaseFor(v2)

\* C14, amended: the base ramp is shared by the families: for the window of
\* the request every continuous variable gets the base ramp the request
\* got, the daily one for a single day and the period one otherwise; what
\* differs between the families is the colour map that is drawn.
C14_RampSharedColorMapPerFamily ==
    (Binned /\ Continuous) =>
        /\ \A v \in ClaimPrecipFamily \cup ClaimDetachFamily :
              ClaimBaseFor(v) = RAMPS[Get(ramp) + 1]
        /\ Get(ramp) = IF ts = ts2 THEN 0 ELSE 1
        /\ (image # None /\ outcome # "cached") =>
              Get(image).cmap = IF environ.v \in ClaimPrecipFamily
                                THEN "james" ELSE "dep_erosion"

\* a precipitation map over a period, drawn with the period ramp and the
\* james colour map
C14_Witness ==
    /\ environ.v = "qc_precip"
    /\ ts # ts2
    /\ ramp = Some(1)
    /\ outcome = "image"
    /\ Get(image).cmap = "james"
    /\ Get(image).bins = RAMPS[2]

\* C16: for a continuous variable the title says 'averaged' and the units
\* end in '/yr' exactly when the day-of-year average query is the one
\* executed; a map titled as a single day or a plain period is never drawn
\* from averaged data.
C16_LabelMatchesAggregation ==
    (Continuous /\ image # None /\ outcome # "cached" /\ Get(image).kind = "map") =>
        LET avg == queries[Len(queries)] = "averaged"
            units == Get(image).units
            n == Len(units)
        IN /\ Get(image).title \in {"averaged years", "averaged between"} <=> avg
           /\ (n >= 3 /\ SubSeq(units, n - 2, n) = <<"/", "y", "r">>) <=> avg

====
